---- MODULE Spec2Model ----
(***************************************************************************)
(* The batch-normalisation notebook (wk3/EE_Batch normalisation) as a      *)
(* state machine: the kernel namespace is the state, every code cell is    *)
(* one action, and the cells run top to bottom until one raises.           *)
(*                                                                         *)
(* Floating-point values are fixed-point integers with Scale units per 1.  *)
(* Library calls (numpy, scikit-learn, Keras) are modelled by what the     *)
(* call with the notebook's arguments does.                                *)
(***************************************************************************)
EXTENDS Integers, Sequences, FiniteSets, TLC

\* ------------------------------------------------------------- bounds

\* Samples in the dataset stand-in (the diabetes dataset has 442).
NumSamples == 3
\* Raw targets are integers 0..MaxTarget.
MaxTarget == 2
\* Fixed-point units per 1.0.
Scale == 1000
\* "Approximately": within Tol fixed-point units.
Tol == 3

\* -------------------------------------------------- program constants

NumFeatures == 10
Epochs == 100
\* test_size=0.1 and validation_split=0.15, in percent.
TestPercent == 10
ValidationPercent == 15
FirstUnits == 64
HiddenUnits == 256
OutputUnits == 1
\* Dropout(0.5), in percent.
DropoutRate == 50
\* BatchNormalization defaults: momentum 0.99 (percent), epsilon 0.001
\* (thousandths), axis -1.
DefaultMomentum == 99
DefaultEpsilon == 1
DefaultAxis == -1
\* The customised layer: momentum 0.95, epsilon 0.005, axis -1,
\* RandomNormal(mean=0.0, stddev=0.05) (hundredths), Constant(value=0.9)
\* (tenths).
CustomMomentum == 95
CustomEpsilon == 5
CustomAxis == -1
BetaMean == 0
BetaStddev == 5
GammaValue == 9

\* ------------------------------------------------------ sequences

Range(s) == {s[i] : i \in 1..Len(s)}

RECURSIVE SumSeq(_)
SumSeq(s) == IF s = <<>> THEN 0 ELSE Head(s) + SumSeq(Tail(s))

IsPrefix(s, t) == Len(s) <= Len(t) /\ SubSeq(t, 1, Len(s)) = s

\* The permutations of 1..n, as sequences.
Permutations1(n) == {p \in [1..n -> 1..n] : Range(p) = 1..n}

\* a[idx], numpy indexing with an index array.
Take(a, idx) == [i \in 1..Len(idx) |-> a[idx[i]]]

\* ------------------------------------------------- fixed-point floats

\* A float is [kind, v]: kind is "num", "nan", "inf" or "ninf", and v is the
\* value of a "num" in 1/Scale units (0 otherwise).
Num(v) == [kind |-> "num", v |-> v]
NaN == [kind |-> "nan", v |-> 0]
Inf == [kind |-> "inf", v |-> 0]
NegInf == [kind |-> "ninf", v |-> 0]

\* The dataset's values are integers stored as floats.
FromInt(k) == Num(k * Scale)

\* a / b rounded to the nearest unit, b > 0.
RoundDiv(a, b) == (2 * a + b) \div (2 * b)

RECURSIVE SqrtBetween(_, _, _)
SqrtBetween(x, lo, hi) ==
    IF lo >= hi THEN lo
    ELSE LET mid == (lo + hi + 1) \div 2
         IN IF mid * mid <= x THEN SqrtBetween(x, mid, hi)
            ELSE SqrtBetween(x, lo, mid - 1)

\* floor(sqrt(x)), x >= 0 (x stays below 2^30).
Sqrt(x) == SqrtBetween(x, 0, 32767)

Kinds(a) == {a[i].kind : i \in 1..Len(a)}
Values(a) == [i \in 1..Len(a) |-> a[i].v]

\* x - y on floats.
FSub(x, y) ==
    IF x.kind = "nan" \/ y.kind = "nan" THEN NaN
    ELSE IF x.kind = "num" /\ y.kind = "num" THEN Num(x.v - y.v)
    ELSE IF x.kind = y.kind THEN NaN
    ELSE IF x.kind = "inf" \/ y.kind = "ninf" THEN Inf
    ELSE NegInf

\* x / y on floats, y finite and not negative (a standard deviation):
\* 0/0 is nan and x/0 is an infinity, as numpy computes them.
FDiv(x, y) ==
    IF x.kind = "nan" \/ y.kind # "num" THEN NaN
    ELSE IF x.kind # "num" THEN x
    ELSE IF y.v = 0
         THEN (IF x.v = 0 THEN NaN ELSE IF x.v > 0 THEN Inf ELSE NegInf)
    ELSE Num(RoundDiv(x.v * Scale, y.v))

\* a.mean(axis=0) of a one-dimensional array.
NpMean(a) ==
    IF "nan" \in Kinds(a) \/ {"inf", "ninf"} \subseteq Kinds(a) THEN NaN
    ELSE IF "inf" \in Kinds(a) THEN Inf
    ELSE IF "ninf" \in Kinds(a) THEN NegInf
    ELSE Num(RoundDiv(SumSeq(Values(a)), Len(a)))

\* Mutant of NpStd: the sample standard deviation (ddof = 1).
NpStdSample(a) ==
    IF Kinds(a) # {"num"} THEN NaN
    ELSE LET m == NpMean(a).v
             sq == [i \in 1..Len(a) |-> (a[i].v - m) * (a[i].v - m)]
         IN Num(Sqrt(RoundDiv(SumSeq(sq), Len(a) - 1)))

\* a.std(): the population standard deviation (ddof = 0),
\* sqrt(mean(abs(a - a.mean()) ** 2)).
NpStd(a) ==
    IF Kinds(a) # {"num"} THEN NaN
    ELSE LET m == NpMean(a).v
             sq == [i \in 1..Len(a) |-> (a[i].v - m) * (a[i].v - m)]
         IN Num(Sqrt(RoundDiv(SumSeq(sq), Len(a))))

\* Mutant of Normalise: the targets are centred and not scaled.
NormaliseCentredOnly(t) == [i \in 1..Len(t) |-> FSub(t[i], NpMean(t))]

\* (targets - targets.mean(axis=0)) / (targets.std())
Normalise(t) ==
    LET m == NpMean(t)
        s == NpStd(t)
    IN [i \in 1..Len(t) |-> FDiv(FSub(t[i], m), s)]

\* ------------------------------------------------------- the notebook

\* Mutant of Cells: the split cell placed before the normalisation cell.
CellsSplitFirst ==
    << "import_tf", "load", "save_vars", "split", "normalise",
       "import_keras", "build", "summary", "add_bn", "add_output",
       "compile", "fit", "plot" >>

\* The code cells, top to bottom.
Cells == << "import_tf", "load", "save_vars", "normalise", "split",
            "import_keras", "build", "summary", "add_bn", "add_output",
            "compile", "fit", "plot" >>

NumCells == Len(Cells)

CellIndex(c) == CHOOSE i \in 1..NumCells : Cells[i] = c

\* The names of the kernel namespace each cell reads.
CellReads(c) ==
    CASE c = "import_tf" -> {}
      [] c = "load" -> {}
      [] c = "save_vars" -> {"diabetes_dataset"}
      [] c = "normalise" -> {"targets"}
      [] c = "split" -> {"train_test_split", "data", "targets"}
      [] c = "import_keras" -> {}
      [] c = "build" -> {"Sequential", "Dense", "BatchNormalization",
                         "Dropout", "train_data"}
      [] c = "summary" -> {"model"}
      [] c = "add_bn" -> {"model", "tf"}
      [] c = "add_output" -> {"model", "Dense"}
      [] c = "compile" -> {"model"}
      [] c = "fit" -> {"model", "train_data", "train_targets"}
      [] c = "plot" -> {"history"}

VARIABLES
    pc,                \* index of the next cell to run; NumCells + 1 at the end
    error,             \* the cell that raised, "" while none has
    active,            \* the cells in progress
    executed,          \* the cells that have completed, in order
    reads,             \* <<cell, name>>: the cell has read the name
    namespace,         \* the names bound in the kernel
    diabetes_dataset,  \* [data, target] as load_diabetes() returns it
    data,
    targets,
    train_data,
    test_data,
    train_targets,
    test_targets,
    layers,            \* model.layers
    compiled,          \* the arguments of model.compile, once compiled
    fit_arrays,        \* what fit trains and validates on: x, y, val_x, val_y
    epoch,             \* epochs fit has finished
    logs,              \* model.history.history, filled by fit epoch by epoch
    history,           \* history.history of the notebook's variable
    figure             \* what the plot cell drew

vars == << pc, error, active, executed, reads, namespace, diabetes_dataset,
           data, targets, train_data, test_data, train_targets, test_targets,
           layers, compiled, fit_arrays, epoch, logs,
           history, figure >>

kernelVars == << pc, error, active, executed, reads >>
datasetVars == << diabetes_dataset, data, targets >>
splitVars == << train_data, test_data, train_targets, test_targets >>
modelVars == << layers, compiled >>
fitVars == << fit_arrays, epoch, logs >>
resultVars == << history, figure >>

NoCompile == [optimizer |-> "", loss |-> "", metrics |-> <<>>]
NoArrays == [x |-> <<>>, y |-> <<>>, val_x |-> <<>>, val_y |-> <<>>]
NoFigure == [epochs |-> <<>>, loss |-> <<>>, mae |-> <<>>]

\* The dataset load_diabetes() returns: NumSamples rows of NumFeatures
\* features, and one integer target per row.
FeatureRow(i) == [j \in 1..NumFeatures |-> i + j]

Datasets ==
    { [data |-> [i \in 1..NumSamples |-> FeatureRow(i)],
       target |-> [i \in 1..NumSamples |-> FromInt(t[i])]] :
      t \in [1..NumSamples -> 0..MaxTarget] }

Init ==
    /\ pc = 1
    /\ error = ""
    /\ active = {}
    /\ executed = <<>>
    /\ reads = {}
    /\ namespace = {}
    /\ diabetes_dataset = <<>>
    /\ data = <<>>
    /\ targets = <<>>
    /\ train_data = <<>>
    /\ test_data = <<>>
    /\ train_targets = <<>>
    /\ test_targets = <<>>
    /\ layers = <<>>
    /\ compiled = NoCompile
    /\ fit_arrays = NoArrays
    /\ epoch = 0
    /\ logs = <<>>
    /\ history = <<>>
    /\ figure = NoFigure

\* Mutant of Running: the run goes on after an exception.
RunningThroughErrors == TRUE

\* Cells run one at a time, top to bottom, and the run stops at the first
\* exception.
Running == error = ""

AtCell(c) == Running /\ pc <= NumCells /\ Cells[pc] = c /\ active = {}

\* The cell at pc completes, having bound the names in `bound`.
Complete(c, bound) ==
    /\ pc' = pc + 1
    /\ executed' = Append(executed, c)
    /\ reads' = reads \cup {<<c, n>> : n \in CellReads(c)}
    /\ namespace' = namespace \cup bound
    /\ active' = {}
    /\ error' = error

\* The cell at pc raises: nothing it was to assign is assigned.
Fail(c) ==
    /\ error' = c
    /\ active' = {}
    /\ reads' = reads \cup {<<c, n>> : n \in CellReads(c)}
    /\ UNCHANGED << pc, executed, namespace >>

\* import tensorflow as tf; print(tf.__version__)
ImportTf ==
    /\ AtCell("import_tf")
    /\ Complete("import_tf", {"tf"})
    /\ UNCHANGED << datasetVars, splitVars, modelVars, fitVars, resultVars >>

\* diabetes_dataset = load_diabetes()
LoadDataset ==
    /\ AtCell("load")
    /\ \E d \in Datasets : diabetes_dataset' = d
    /\ Complete("load", {"load_diabetes", "diabetes_dataset"})
    /\ UNCHANGED << data, targets, splitVars, modelVars, fitVars, resultVars >>

\* data = diabetes_dataset['data']; targets = diabetes_dataset['target']
SaveVariables ==
    /\ AtCell("save_vars")
    /\ data' = diabetes_dataset.data
    /\ targets' = diabetes_dataset.target
    /\ Complete("save_vars", {"train_test_split", "data", "targets"})
    /\ UNCHANGED << diabetes_dataset, splitVars, modelVars, fitVars,
                    resultVars >>

\* targets = (targets - targets.mean(axis=0)) / (targets.std())
NormaliseTargets ==
    /\ AtCell("normalise")
    /\ targets' = Normalise(targets)
    /\ Complete("normalise", {})
    /\ UNCHANGED << diabetes_dataset, data, splitVars, modelVars, fitVars,
                    resultVars >>

\* ceil(test_size * n_samples), test_size = TestPercent / 100.
NumTest(n) == (TestPercent * n + 99) \div 100

\* train_size is None: the train set is what the test set leaves.
NumTrain(n) == n - NumTest(n)

\* The index arrays of one shuffle: the permutation's first NumTest entries
\* are the test set, the following NumTrain the train set.
TestIndices(perm) == SubSeq(perm, 1, NumTest(Len(perm)))
TrainIndices(perm) ==
    SubSeq(perm, NumTest(Len(perm)) + 1,
           NumTest(Len(perm)) + NumTrain(Len(perm)))

\* Mutant of SplitArrays: the targets are shuffled on their own, here taken
\* in the reverse of the features' order.
SplitArraysUnaligned(d, t, perm) ==
    [train_data |-> Take(d, TrainIndices(perm)),
     test_data |-> Take(d, TestIndices(perm)),
     train_targets |->
        [i \in 1..Len(TrainIndices(perm)) |->
            t[TrainIndices(perm)[Len(TrainIndices(perm)) + 1 - i]]],
     test_targets |-> Take(t, TestIndices(perm))]

\* The four arrays train_test_split(data, targets, test_size=0.1) returns
\* for the shuffle `perm`: each array indexed by the same index arrays.
SplitArrays(d, t, perm) ==
    [train_data |-> Take(d, TrainIndices(perm)),
     test_data |-> Take(d, TestIndices(perm)),
     train_targets |-> Take(t, TrainIndices(perm)),
     test_targets |-> Take(t, TestIndices(perm))]

\* train_data, test_data, train_targets, test_targets =
\*     train_test_split(data, targets, test_size=0.1)
SplitDataset ==
    /\ AtCell("split")
    /\ IF NumTrain(Len(data)) = 0
       THEN \* ValueError: the resulting train set will be empty
            /\ Fail("split")
            /\ UNCHANGED splitVars
       ELSE \E perm \in Permutations1(Len(data)) :
              LET r == SplitArrays(data, targets, perm)
              IN /\ train_data' = r.train_data
                 /\ test_data' = r.test_data
                 /\ train_targets' = r.train_targets
                 /\ test_targets' = r.test_targets
                 /\ Complete("split", {"train_data", "test_data",
                                       "train_targets", "test_targets"})
    /\ UNCHANGED << datasetVars, modelVars, fitVars, resultVars >>

\* from tensorflow.keras.models import Sequential
\* from tensorflow.keras.layers import Flatten, Dense, ...
ImportKeras ==
    /\ AtCell("import_keras")
    /\ Complete("import_keras",
                {"Sequential", "Flatten", "Dense", "Conv2D", "MaxPooling2D",
                 "BatchNormalization", "Dropout"})
    /\ UNCHANGED << datasetVars, splitVars, modelVars, fitVars, resultVars >>

\* ------------------------------------------------------------ layers

Zeros == [name |-> "Zeros"]
Ones == [name |-> "Ones"]
RandomNormal(mean, stddev) ==
    [name |-> "RandomNormal", mean |-> mean, stddev |-> stddev]
ConstantInit(value) == [name |-> "Constant", value |-> value]

\* Dense(units, input_shape=[input_dim,], activation=activation);
\* input_dim 0 and activation "linear" when not given.
Dense(units, input_dim, activation) ==
    [kind |-> "Dense", units |-> units, input_dim |-> input_dim,
     activation |-> activation]

Dropout(rate) == [kind |-> "Dropout", rate |-> rate]

\* BatchNormalization(momentum=, epsilon=, axis=, beta_initializer=,
\* gamma_initializer=)
BatchNormalization(momentum, epsilon, axis, beta_init, gamma_init) ==
    [kind |-> "BatchNormalization", momentum |-> momentum,
     epsilon |-> epsilon, axis |-> axis,
     beta_initializer |-> beta_init,
     gamma_initializer |-> gamma_init]

\* BatchNormalization(): every argument at its default.
DefaultBatchNormalization ==
    BatchNormalization(DefaultMomentum, DefaultEpsilon, DefaultAxis, Zeros,
                       Ones)

\* The customised layer of the add_bn cell.
CustomBatchNormalization ==
    BatchNormalization(CustomMomentum, CustomEpsilon, CustomAxis,
                       RandomNormal(BetaMean, BetaStddev),
                       ConstantInit(GammaValue))

\* Mutant of InitialLayers: the second normalisation layer is left out.
InitialLayersOneNorm(input_dim) ==
    << Dense(FirstUnits, input_dim, "relu"),
       DefaultBatchNormalization,
       Dropout(DropoutRate),
       Dropout(DropoutRate),
       Dense(HiddenUnits, 0, "relu") >>

\* The layer list handed to Sequential([...]); input_dim is
\* train_data.shape[1].
InitialLayers(input_dim) ==
    << Dense(FirstUnits, input_dim, "relu"),
       DefaultBatchNormalization,
       Dropout(DropoutRate),
       DefaultBatchNormalization,
       Dropout(DropoutRate),
       Dense(HiddenUnits, 0, "relu") >>

\* Mutant of ModelAdd: the layer is put in front of the stack.
ModelAddInFront(ls, layer) == <<layer>> \o ls

\* model.add(layer)
ModelAdd(ls, layer) == Append(ls, layer)

\* model = Sequential([...])
BuildModel ==
    /\ AtCell("build")
    /\ layers' = InitialLayers(Len(train_data[1]))
    /\ Complete("build", {"model"})
    /\ UNCHANGED << datasetVars, splitVars, compiled, fitVars, resultVars >>

\* model.summary()
PrintSummary ==
    /\ AtCell("summary")
    /\ Complete("summary", {})
    /\ UNCHANGED << datasetVars, splitVars, modelVars, fitVars, resultVars >>

\* model.add(tf.keras.layers.BatchNormalization(momentum=0.95, ...))
AddCustomBatchNorm ==
    /\ AtCell("add_bn")
    /\ layers' = ModelAdd(layers, CustomBatchNormalization)
    /\ Complete("add_bn", {})
    /\ UNCHANGED << datasetVars, splitVars, compiled, fitVars, resultVars >>

\* model.add(Dense(1))
AddOutputLayer ==
    /\ AtCell("add_output")
    /\ layers' = ModelAdd(layers, Dense(OutputUnits, 0, "linear"))
    /\ Complete("add_output", {})
    /\ UNCHANGED << datasetVars, splitVars, compiled, fitVars, resultVars >>

\* Mutant of CompileArgs: no metric is named.
CompileArgsNoMetric == [optimizer |-> "adam", loss |-> "mse", metrics |-> <<>>]

\* model.compile(optimizer='adam', loss='mse', metrics=['mae'])
CompileArgs == [optimizer |-> "adam", loss |-> "mse", metrics |-> <<"mae">>]

CompileModel ==
    /\ AtCell("compile")
    /\ compiled' = CompileArgs
    /\ Complete("compile", {})
    /\ UNCHANGED << datasetVars, splitVars, layers, fitVars, resultVars >>

\* --------------------------------------------------------------- fit

\* validation_split: the last ValidationPercent of the samples handed to fit
\* are held out, split_at = int(n * (1 - validation_split)).
SplitAt(n) == (n * (100 - ValidationPercent)) \div 100

\* Mutant of FitArrays: fit validates on the test set
\* (validation_data=(test_data, test_targets)).
FitArraysTestValidation(x, y) ==
    [x |-> x, y |-> y, val_x |-> test_data, val_y |-> test_targets]

\* What fit(x, y, validation_split=0.15) trains and validates on, the split
\* taken before any shuffling.
FitArrays(x, y) ==
    [x |-> SubSeq(x, 1, SplitAt(Len(x))),
     y |-> SubSeq(y, 1, SplitAt(Len(x))),
     val_x |-> SubSeq(x, SplitAt(Len(x)) + 1, Len(x)),
     val_y |-> SubSeq(y, SplitAt(Len(x)) + 1, Len(x))]

\* The names of the values fit logs on the training samples: the loss and
\* each compiled metric.
TrainKeys(args) == {"loss"} \cup Range(args.metrics)

\* The keys of one epoch's logs: those of the training samples and, when
\* validation samples are held out, each again with the prefix val_.
EpochKeys(args, arrays) ==
    TrainKeys(args) \cup
    (IF Len(arrays.val_x) > 0
     THEN {"val_" \o k : k \in TrainKeys(args)}
     ELSE {})

\* A logged value is a number, or nan when a target it is computed from is.
Logged(y) == IF "nan" \in Kinds(y) THEN "nan" ELSE "num"

\* History.on_epoch_end: every key of the epoch's logs gets the value
\* appended to its series.
AppendLogs(h, args, arrays) ==
    [k \in EpochKeys(args, arrays) |->
        Append(IF k \in DOMAIN h THEN h[k] ELSE <<>>,
               IF k \in TrainKeys(args) THEN Logged(arrays.y)
               ELSE Logged(arrays.val_y))]

\* Mutant of FitFinished: fit stops one epoch early.
FitFinishedEarly(e) == e >= Epochs - 1

\* fit has run all its epochs: no callback stops it earlier.
FitFinished(e) == e >= Epochs

\* history = model.fit(train_data, train_targets, epochs=100,
\*                     validation_split=0.15, batch_size=64, verbose=False)
\* begins: the samples are split and the history is emptied.
FitBegin ==
    /\ AtCell("fit")
    /\ IF compiled = NoCompile
          \/ SplitAt(Len(train_data)) = 0
       THEN \* RuntimeError (not compiled), ValueError (no training sample)
            /\ Fail("fit")
            /\ UNCHANGED fitVars
       ELSE /\ active' = {"fit"}
            /\ fit_arrays' = FitArrays(train_data, train_targets)
            /\ epoch' = 0
            /\ logs' = <<>>
            /\ UNCHANGED << pc, error, executed, reads, namespace >>
    /\ UNCHANGED << datasetVars, splitVars, modelVars, resultVars >>

\* One epoch of fit.
FitEpoch ==
    /\ Running
    /\ active = {"fit"}
    /\ ~FitFinished(epoch)
    /\ epoch' = epoch + 1
    /\ logs' = AppendLogs(logs, compiled, fit_arrays)
    /\ UNCHANGED << kernelVars, namespace, datasetVars, splitVars, modelVars,
                    fit_arrays, resultVars >>

\* fit returns the History object, which the cell binds to history.
FitReturn ==
    /\ Running
    /\ active = {"fit"}
    /\ FitFinished(epoch)
    /\ history' = logs
    /\ Complete("fit", {"history"})
    /\ UNCHANGED << datasetVars, splitVars, modelVars, fitVars, figure >>

\* -------------------------------------------------------------- plot

\* The series the plot cell reads from the frame.
PlottedKeys == {"loss", "val_loss", "mae", "val_mae"}

\* len(frame): the rows of pd.DataFrame(history.history).
FrameLen(h) == IF DOMAIN h = {} THEN 0 ELSE Len(h[CHOOSE k \in DOMAIN h : TRUE])

\* np.arange(n)
Arange(n) == [i \in 1..n |-> i - 1]

\* The plot cell can draw: the frame can be built (series of one length) and
\* holds every series the cell reads.
CanPlot(h) ==
    /\ \A k \in DOMAIN h : Len(h[k]) = FrameLen(h)
    /\ PlottedKeys \subseteq DOMAIN h

\* frame = pd.DataFrame(history.history); epochs = np.arange(len(frame));
\* ax.plot(epochs, frame['loss']) ... ax.plot(epochs, frame['val_mae'])
PlotCurves ==
    /\ AtCell("plot")
    /\ IF CanPlot(history)
       THEN /\ figure' =
                 [epochs |-> Arange(FrameLen(history)),
                  loss |-> << history["loss"], history["val_loss"] >>,
                  mae |-> << history["mae"], history["val_mae"] >>]
            /\ Complete("plot", {"pd", "np", "plt", "frame", "epochs", "fig",
                                 "ax"})
       ELSE \* ValueError (series of unequal length), KeyError
            /\ Fail("plot")
            /\ UNCHANGED figure
    /\ UNCHANGED << datasetVars, splitVars, modelVars, fitVars, history >>

\* ------------------------------------------------------------ the run

\* A library call of the cell at pc raises (a missing package, a failure
\* inside the framework): the run stops there.
Raise ==
    /\ Running
    /\ pc <= NumCells
    /\ Fail(Cells[pc])
    /\ UNCHANGED << datasetVars, splitVars, modelVars, fitVars, resultVars >>

Next ==
    \/ ImportTf
    \/ LoadDataset
    \/ SaveVariables
    \/ NormaliseTargets
    \/ SplitDataset
    \/ ImportKeras
    \/ BuildModel
    \/ PrintSummary
    \/ AddCustomBatchNorm
    \/ AddOutputLayer
    \/ CompileModel
    \/ FitBegin
    \/ FitEpoch
    \/ FitReturn
    \/ PlotCurves
    \/ Raise

Spec == Init /\ [][Next]_vars

\* ------------------------------------------------------------ claims

\* The cell has completed.
Ran(c) == c \in Range(executed)

\* The run has ended: every cell completed, or one raised.
Ended == pc > NumCells \/ error # ""

\* The notebook's order, written out: the steps of the claim are load,
\* normalise, split, build with add_bn and add_output (construct), compile,
\* fit and plot.
ExpectedOrder ==
    << "import_tf", "load", "save_vars", "normalise", "split",
       "import_keras", "build", "summary", "add_bn", "add_output",
       "compile", "fit", "plot" >>

\* C1 (as amended): the cells, and with them the steps load, normalise,
\* split, construct, compile, fit and plot, complete in the notebook's order,
\* each at most once and only after every cell before it; at most one cell
\* is in progress at a time, and it is the one at pc; a run in which no cell
\* raises ends with every cell run exactly once.
C1_StepsInOrderOnce ==
    /\ IsPrefix(executed, ExpectedOrder)
    /\ Len(executed) = pc - 1
    /\ Cardinality(active) <= 1
    /\ active # {} => pc <= NumCells /\ active = {ExpectedOrder[pc]}
    /\ (Ended /\ error = "") => executed = ExpectedOrder

\* C1 witness: a run that completed with the plot drawn.
C1_Witness ==
    /\ pc > NumCells
    /\ error = ""
    /\ executed = ExpectedOrder
    /\ figure # NoFigure

\* C1 as stated: in every execution each step runs exactly once, so an
\* execution that has ended has run every cell.
C1_Original ==
    /\ IsPrefix(executed, ExpectedOrder)
    /\ Cardinality(active) <= 1
    /\ Ended => executed = ExpectedOrder

\* The stack the claim lists, written out.
ExpectedStack ==
    << [kind |-> "Dense", units |-> 64, input_dim |-> 10,
        activation |-> "relu"],
       [kind |-> "BatchNormalization", momentum |-> 99, epsilon |-> 1,
        axis |-> -1, beta_initializer |-> [name |-> "Zeros"],
        gamma_initializer |-> [name |-> "Ones"]],
       [kind |-> "Dropout", rate |-> 50],
       [kind |-> "BatchNormalization", momentum |-> 99, epsilon |-> 1,
        axis |-> -1, beta_initializer |-> [name |-> "Zeros"],
        gamma_initializer |-> [name |-> "Ones"]],
       [kind |-> "Dropout", rate |-> 50],
       [kind |-> "Dense", units |-> 256, input_dim |-> 0,
        activation |-> "relu"],
       [kind |-> "BatchNormalization", momentum |-> 95, epsilon |-> 5,
        axis |-> -1,
        beta_initializer |-> [name |-> "RandomNormal", mean |-> 0,
                              stddev |-> 5],
        gamma_initializer |-> [name |-> "Constant", value |-> 9]],
       [kind |-> "Dense", units |-> 1, input_dim |-> 0,
        activation |-> "linear"] >>

\* compile is about to run, is running or has run, fit and plot included.
FromCompileOn == pc >= CellIndex("compile")

\* C2: from the moment compile runs, through fit and plot, the layer stack
\* is the eight layers of the claim in order: three normalisation layers,
\* the single-unit Dense layer last; and the model is never compiled or
\* being fitted without its output layer.
C2_StackCompleteAtCompile ==
    /\ FromCompileOn => layers = ExpectedStack
    /\ (compiled # NoCompile \/ active = {"fit"} \/ epoch > 0) =>
          /\ Len(layers) > 0
          /\ layers[Len(layers)].kind = "Dense"
          /\ layers[Len(layers)].units = 1
          /\ Cardinality({i \in 1..Len(layers) :
                             layers[i].kind = "BatchNormalization"}) = 3

\* C2 witness: fit is training the compiled eight-layer model.
C2_Witness ==
    /\ active = {"fit"}
    /\ epoch > 0
    /\ compiled = CompileArgs
    /\ Len(layers) = 8

\* The targets as loaded, before the normalisation cell rebinds targets.
RawTargets == diabetes_dataset.target

\* The targets as loaded are not all one value: their standard deviation is
\* not zero.
NonZeroStd == Cardinality(Range(RawTargets)) > 1

\* n * (sum of a): the mean of a is within tol of 0 when this is within
\* n * tol of 0.
AbsInt(k) == IF k < 0 THEN 0 - k ELSE k

MeanNear(a, centre, tol) ==
    AbsInt(SumSeq(a) - Len(a) * centre) <= Len(a) * tol

\* The population standard deviation of a is within tol of centre, compared
\* as n^3 * variance = sum over i of (n * a[i] - sum(a))^2.
StdNear(a, centre, tol) ==
    LET n == Len(a)
        dev == [i \in 1..n |-> (n * a[i] - SumSeq(a)) * (n * a[i] - SumSeq(a))]
    IN /\ (centre - tol) * (centre - tol) * n * n * n <= SumSeq(dev)
       /\ SumSeq(dev) <= (centre + tol) * (centre + tol) * n * n * n

\* C3: once the normalisation cell has run on targets whose standard
\* deviation is not zero, every target is a number, and the targets have
\* mean 0 and standard deviation 1 to within Tol / Scale.
C3_TargetsStandardised ==
    (Ran("normalise") /\ NonZeroStd) =>
        /\ Kinds(targets) = {"num"}
        /\ MeanNear(Values(targets), 0, Tol)
        /\ StdNear(Values(targets), Scale, Tol)

\* C3 witness: normalised targets of three different values, one of them
\* below the mean and one above.
C3_Witness ==
    /\ Ran("normalise")
    /\ NonZeroStd
    /\ Cardinality(Range(RawTargets)) >= 3
    /\ \E i, j \in 1..Len(targets) : targets[i].v < 0 /\ targets[j].v > 0

\* What the notebook's text gives as the defaults of a normalisation layer.
DefaultHyperparameters ==
    [kind |-> "BatchNormalization", momentum |-> 99, epsilon |-> 1,
     axis |-> -1, beta_initializer |-> [name |-> "Zeros"],
     gamma_initializer |-> [name |-> "Ones"]]

\* The hyperparameters the add_bn cell passes.
CustomHyperparameters ==
    [kind |-> "BatchNormalization", momentum |-> 95, epsilon |-> 5,
     axis |-> -1,
     beta_initializer |-> [name |-> "RandomNormal", mean |-> 0, stddev |-> 5],
     gamma_initializer |-> [name |-> "Constant", value |-> 9]]

NormalisationLayers ==
    {i \in 1..Len(layers) : layers[i].kind = "BatchNormalization"}

\* The two normalisation layers of the constructor are the second and fourth
\* layers and have the defaults; the customised one, once added, is the
\* seventh and the only one with other hyperparameters.
HyperparametersAsGiven ==
    /\ Ran("build") =>
          /\ {2, 4} \subseteq NormalisationLayers
          /\ layers[2] = DefaultHyperparameters
          /\ layers[4] = DefaultHyperparameters
    /\ (Ran("build") /\ ~Ran("add_bn")) => NormalisationLayers = {2, 4}
    /\ Ran("add_bn") =>
          /\ NormalisationLayers = {2, 4, 7}
          /\ layers[7] = CustomHyperparameters

\* No step changes or moves a layer the model already has.
LayersKept == IsPrefix(layers, layers')

\* C5: the constructor's two normalisation layers keep the default
\* hyperparameters, only the third, added later, has the custom ones, and
\* adding a layer leaves every earlier layer as and where it was.
C5_DefaultsKeptCustomAdded == [](HyperparametersAsGiven) /\ [][LayersKept]_vars

\* C5 witness: both layers have been added to the six of the constructor.
C5_Witness ==
    /\ Ran("add_output")
    /\ Len(layers) = 8
    /\ layers[7] = CustomHyperparameters
    /\ layers[2] = DefaultHyperparameters

\* The run stays stopped: every step is taken while no cell has raised.
NoStepAfterError == error = ""

\* The cell that raised is the one at pc, it has not completed, no cell is in
\* progress, and nothing a failed cell or a cell after it assigns is there.
FailureLeavesNoState ==
    error # "" =>
        /\ pc <= NumCells
        /\ error = Cells[pc]
        /\ ~Ran(error)
        /\ Len(executed) = pc - 1
        /\ active = {}
        /\ pc <= CellIndex("load") =>
              diabetes_dataset = <<>> /\ "diabetes_dataset" \notin namespace
        /\ pc <= CellIndex("normalise") =>
              targets = <<>> \/ (Ran("save_vars") /\ targets = RawTargets)
        /\ pc <= CellIndex("split") =>
              /\ train_data = <<>> /\ test_data = <<>>
              /\ train_targets = <<>> /\ test_targets = <<>>
        /\ pc <= CellIndex("build") => layers = <<>>
        /\ pc <= CellIndex("add_bn") => Len(layers) <= 6
        /\ pc <= CellIndex("add_output") => Len(layers) <= 7
        /\ pc <= CellIndex("compile") => compiled = NoCompile
        /\ pc <= CellIndex("fit") =>
              history = <<>> /\ "history" \notin namespace
        /\ figure = NoFigure

\* C4: a cell that raises ends the run: it is not run again, no cell after it
\* runs, and what it and the later cells were to assign stays unassigned; a
\* failed fit leaves no history and nothing plotted.
C4_FailureStopsRun == [](FailureLeavesNoState) /\ [][NoStepAfterError]_vars

\* C4 witness: fit raised after some epochs.
C4_Witness ==
    /\ error = "fit"
    /\ epoch > 0
    /\ DOMAIN logs # {}
    /\ history = <<>>
    /\ figure = NoFigure

\* The samples of a feature array and its target array, row by row.
Samples(d, t) == {<<d[i], t[i]>> : i \in 1..Len(d)}

\* C6: once the split cell has run, the train and test sets partition the
\* samples (together all of them, none in both, none twice), the test set
\* has a tenth of them rounded up, each row is paired with its own target,
\* every row has its 10 columns, and the first Dense layer, once built, has
\* input dimension 10.
C6_SplitPartitionsAligned ==
    Ran("split") =>
        /\ Len(train_data) = Len(train_targets)
        /\ Len(test_data) = Len(test_targets)
        /\ Len(train_data) + Len(test_data) = Len(data)
        /\ Samples(train_data, train_targets)
              \cup Samples(test_data, test_targets) = Samples(data, targets)
        /\ Range(train_data) \cap Range(test_data) = {}
        /\ Cardinality(Range(train_data)) = Len(train_data)
        /\ Cardinality(Range(test_data)) = Len(test_data)
        /\ 10 * Len(test_data) >= Len(data)
        /\ 10 * (Len(test_data) - 1) < Len(data)
        /\ \A row \in Range(train_data) \cup Range(test_data) : Len(row) = 10
        /\ Ran("build") => layers[1].input_dim = 10

\* C6 witness: the split has run on targets that differ, and the model is
\* built.
C6_Witness ==
    /\ Ran("build")
    /\ Len(test_data) = 1
    /\ Len(train_data) = NumSamples - 1
    /\ Cardinality(Range(targets)) > 1

\* C7: once fit has returned, history.history holds exactly the series
\* 'loss', 'val_loss', 'mae' and 'val_mae', so the plot cell, when it is about
\* to run, finds every series it reads, and what it draws are those series.
C7_PlottedKeysRecorded ==
    /\ Ran("fit") =>
          /\ {"loss", "val_loss", "mae", "val_mae"} \subseteq DOMAIN history
          /\ DOMAIN history = {"loss", "val_loss", "mae", "val_mae"}
    /\ (Running /\ pc = CellIndex("plot")) => CanPlot(history)
    /\ error = "plot" => CanPlot(history)
    /\ Ran("plot") =>
          /\ figure.loss = << history["loss"], history["val_loss"] >>
          /\ figure.mae = << history["mae"], history["val_mae"] >>

\* C7 witness: the plot cell has drawn the four series.
C7_Witness ==
    /\ Ran("plot")
    /\ Len(figure.loss) = 2
    /\ Len(figure.mae) = 2
    /\ Len(figure.loss[2]) > 0

\* While fit runs, every series recorded so far has one entry per finished
\* epoch, and no more than 100 epochs have finished; once fit has returned
\* there are 100 entries in each series; what is plotted is 100 entries
\* against the epochs 0..99.
HundredEpochs ==
    /\ epoch <= 100
    /\ \A k \in DOMAIN logs : Len(logs[k]) = epoch
    /\ (active = {"fit"} /\ epoch > 0) => DOMAIN logs # {}
    /\ Ran("fit") =>
          /\ epoch = 100
          /\ DOMAIN history # {}
          /\ \A k \in DOMAIN history : Len(history[k]) = 100
    /\ Ran("plot") =>
          /\ figure.epochs = [i \in 1..100 |-> i - 1]
          /\ \A i \in 1..2 : /\ Len(figure.loss[i]) = Len(figure.epochs)
                             /\ Len(figure.mae[i]) = Len(figure.epochs)

\* Every step fit takes while it stays in progress finishes one more epoch.
EpochAdvances ==
    (active = {"fit"} /\ active' = {"fit"}) =>
        /\ epoch' = epoch + 1
        /\ \A k \in DOMAIN logs' : Len(logs'[k]) = epoch'

\* C8: fit runs exactly 100 epochs, each appending one value to every
\* recorded series, and returns; when the plot cell runs every series has 100
\* entries and the x-axis is 0..99.
C8_FitRunsHundredEpochs == [](HundredEpochs) /\ [][EpochAdvances]_vars

\* C8 witness: the learning curves of the 100 epochs are plotted.
C8_Witness ==
    /\ Ran("plot")
    /\ epoch = 100
    /\ Len(figure.epochs) = 100
    /\ Len(figure.loss[1]) = 100

\* The z-scores of the targets as loaded, with the mean and the standard
\* deviation of all of them.
WholeDatasetScores ==
    LET m == NpMean(RawTargets)
        sd == NpStd(RawTargets)
    IN [k \in 1..Len(RawTargets) |-> FDiv(FSub(RawTargets[k], m), sd)]

\* C9: when the split cell is about to run, and from then on, targets holds
\* the z-scores computed with the mean and standard deviation of the whole
\* dataset; every sample of the train and the test set, and every sample fit
\* trains or validates on, carries that normalised target.
C9_NormalisedBeforeSplit ==
    pc >= CellIndex("split") =>
        LET scores == WholeDatasetScores
            normalised == Samples(diabetes_dataset.data, scores)
        IN /\ Ran("normalise")
           /\ targets = scores
           /\ Ran("split") =>
                 /\ Samples(train_data, train_targets) \subseteq normalised
                 /\ Samples(test_data, test_targets) \subseteq normalised
           /\ Samples(fit_arrays.x, fit_arrays.y) \subseteq normalised
           /\ Samples(fit_arrays.val_x, fit_arrays.val_y) \subseteq normalised

\* C9 witness: fit trains on normalised targets that differ from the raw
\* ones, and a test target is normalised by the same statistics.
C9_Witness ==
    /\ active = {"fit"}
    /\ NonZeroStd
    /\ fit_arrays.y # <<>>
    /\ \E i \in 1..Len(test_targets) :
          /\ test_targets[i].kind = "num"
          /\ test_targets[i] \notin Range(RawTargets)

\* C10: no cell reads test_data or test_targets; fit trains and validates on
\* the train set alone, the validation samples being its last 15% (rounded
\* up), none of them a sample of the test set.
C10_TestSetUnused ==
    /\ \A r \in reads : r[2] \notin {"test_data", "test_targets"}
    /\ fit_arrays # NoArrays =>
          /\ fit_arrays.x \o fit_arrays.val_x = train_data
          /\ fit_arrays.y \o fit_arrays.val_y = train_targets
          /\ Range(fit_arrays.val_x) \subseteq Range(train_data)
          /\ Range(fit_arrays.val_x) \cap Range(test_data) = {}
          /\ Range(fit_arrays.x) \cap Range(test_data) = {}
          /\ Len(fit_arrays.val_x) > 0
          /\ 100 * Len(fit_arrays.val_x) >= 15 * Len(train_data)
          /\ 100 * (Len(fit_arrays.val_x) - 1) < 15 * Len(train_data)

\* C10 witness: fit has returned with validation series, the test set
\* holding a sample that fit never saw.
C10_Witness ==
    /\ Ran("fit")
    /\ "val_loss" \in DOMAIN history
    /\ Len(test_data) > 0
    /\ Len(fit_arrays.val_x) > 0
    /\ \E r \in reads : r = <<"fit", "train_data">>

====
